---- MODULE Spec2Model ----
(***************************************************************************)
(* The virtual file system bridge of modernc.org/tcl (vfs.go): the mount   *)
(* table (vfsPoints, vfsMounts, vfsIsRegistered), MountFileSystem and      *)
(* UnmountFileSystem, and the file system hooks the Tcl runtime calls      *)
(* (vfsPathInFilesystem, vfsStat, vfsAccess, vfsOpenFileChannel), and the  *)
(* channel driver hooks (channelClose, channelInput, channelSeek) over the *)
(* handle registry (objects) and the native channels (channels).           *)
(*                                                                         *)
(* A Go string is a sequence of one-character strings, compared by byte    *)
(* value as Go compares strings.  Every function of vfs.go holds vfsMu     *)
(* from its first statement to its return, so each call is one action.    *)
(***************************************************************************)
EXTENDS Integers, Sequences, FiniteSets, TLC

VARIABLES vfsIsRegistered, vfsMounts, vfsPoints, objects, channels, interp,
          vfsMu, thread, last

vars ==
    <<vfsIsRegistered, vfsMounts, vfsPoints, objects, channels, interp, vfsMu,
      thread, last>>

\* ------------------------------------------------------------------ bounds

\* MountFileSystem is not called once vfsPoints holds this many entries.
MaxPoints == 2

\* ----------------------------------------------------------------- strings

\* The byte value of a character.
Ord(c) ==
    CASE c = "." -> 46
      [] c = "/" -> 47
      [] c = "a" -> 97
      [] c = "b" -> 98
      [] c = "d" -> 100
      [] c = "f" -> 102
      [] c = "g" -> 103
      [] c = "i" -> 105
      [] c = "l" -> 108
      [] c = "x" -> 120

\* Go's s < t on strings: bytewise lexicographic order.
RECURSIVE StrLess(_, _)
StrLess(s, t) ==
    IF t = <<>> THEN FALSE
    ELSE IF s = <<>> THEN TRUE
    ELSE IF Ord(Head(s)) < Ord(Head(t)) THEN TRUE
    ELSE IF Ord(Head(s)) > Ord(Head(t)) THEN FALSE
    ELSE StrLess(Tail(s), Tail(t))

\* Go's s >= t on strings.
StrGeq(s, t) == ~StrLess(s, t)

\* strings.HasPrefix
HasPrefix(s, prefix) ==
    /\ Len(s) >= Len(prefix)
    /\ SubSeq(s, 1, Len(prefix)) = prefix

\* strings.HasSuffix
HasSuffix(s, suffix) ==
    /\ Len(s) >= Len(suffix)
    /\ SubSeq(s, Len(s) - Len(suffix) + 1, Len(s)) = suffix

\* ------------------------------------------------------------- path.Clean

\* The ".." case of path.Clean's loop: back the output up to the previous
\* element, or (not rooted) append "..".  w is the number of bytes kept of
\* buf (lazybuf.w); buf[w + 1] is Go's out.index(out.w).
RECURSIVE Backtrack(_, _, _)
Backtrack(buf, w, dotdot) ==
    IF w > dotdot /\ buf[w + 1] # "/"
    THEN Backtrack(buf, w - 1, dotdot)
    ELSE w

CleanDotDot(out, dotdot, rooted) ==
    IF Len(out) > dotdot
    THEN [out |-> SubSeq(out, 1, Backtrack(out, Len(out) - 1, dotdot)),
          dotdot |-> dotdot]
    ELSE IF ~rooted
    THEN LET o == (IF Len(out) > 0 THEN out \o <<"/">> ELSE out) \o <<".", ".">>
         IN  [out |-> o, dotdot |-> Len(o)]
    ELSE [out |-> out, dotdot |-> dotdot]

\* The index after the path element that starts at r (1-based).
RECURSIVE ElementEnd(_, _)
ElementEnd(p, r) ==
    IF r <= Len(p) /\ p[r] # "/" THEN ElementEnd(p, r + 1) ELSE r

\* path.Clean's loop; r is the 1-based read position.
RECURSIVE CleanLoop(_, _, _, _, _)
CleanLoop(p, r, out, dotdot, rooted) ==
    LET n == Len(p) IN
    IF r > n THEN out
    ELSE IF p[r] = "/" THEN CleanLoop(p, r + 1, out, dotdot, rooted)
    ELSE IF p[r] = "." /\ (r = n \/ p[r + 1] = "/")
    THEN CleanLoop(p, r + 1, out, dotdot, rooted)
    ELSE IF p[r] = "." /\ p[r + 1] = "." /\ (r + 1 = n \/ p[r + 2] = "/")
    THEN CleanLoop(p, r + 2, CleanDotDot(out, dotdot, rooted).out,
                   CleanDotDot(out, dotdot, rooted).dotdot, rooted)
    ELSE CleanLoop(p, ElementEnd(p, r),
                   (IF (rooted /\ Len(out) # 1) \/ (~rooted /\ Len(out) # 0)
                    THEN out \o <<"/">> ELSE out)
                       \o SubSeq(p, r, ElementEnd(p, r) - 1),
                   dotdot, rooted)

\* The end of path.Clean: an empty output is ".".
CleanResult(out) == IF out = <<>> THEN <<".">> ELSE out

\* path.Clean
Clean(p) ==
    IF p = <<>> THEN <<".">>
    ELSE CleanResult(IF p[1] = "/"
                     THEN CleanLoop(p, 2, <<"/">>, 1, TRUE)
                     ELSE CleanLoop(p, 1, <<>>, 0, FALSE))

\* normalizeCleaned without the rejection of ".".
normalizeCleaned_noReject(c) ==
    IF c # <<"/">> THEN [err |-> FALSE, s |-> c \o <<"/">>]
    ELSE [err |-> FALSE, s |-> c]

\* normalizeMountPoint after s = path.Clean(s): [err, s]
normalizeCleaned(c) ==
    IF c = <<".">> THEN [err |-> TRUE, s |-> <<>>]
    ELSE IF c # <<"/">> THEN [err |-> FALSE, s |-> c \o <<"/">>]
    ELSE [err |-> FALSE, s |-> c]

\* normalizeMountPoint without path.Clean.
normalizeMountPoint_noClean(s) == normalizeCleaned(s)

\* normalizeMountPoint: [err, s]
normalizeMountPoint(s) == normalizeCleaned(Clean(s))

\* ------------------------------------------------------------------- sort

\* sort.Search(n, f) with f(i) = list[i] >= x; i, j are 0-based as in Go.
RECURSIVE SearchLoop(_, _, _, _)
SearchLoop(list, x, i, j) ==
    IF i < j
    THEN IF ~StrGeq(list[((i + j) \div 2) + 1], x)
         THEN SearchLoop(list, x, ((i + j) \div 2) + 1, j)
         ELSE SearchLoop(list, x, i, (i + j) \div 2)
    ELSE i

SearchGeq(list, x) == SearchLoop(list, x, 0, Len(list))

\* Insert x into the sorted list before the first greater element.
RECURSIVE InsertSorted(_, _)
InsertSorted(list, x) ==
    IF list = <<>> THEN <<x>>
    ELSE IF StrLess(x, Head(list)) THEN <<x>> \o list
    ELSE <<Head(list)>> \o InsertSorted(Tail(list), x)

\* sort.Strings
RECURSIVE SortStrings(_)
SortStrings(list) ==
    IF list = <<>> THEN <<>>
    ELSE InsertSorted(SortStrings(Tail(list)), Head(list))

\* -------------------------------------------------------------- providers

\* The nil FileSystem interface value.
Nil == "nil"

\* The host file system providers (http.FileSystem values) of the model.
Providers == {"A", "B"}

\* What a caller can pass to MountFileSystem as fs.
ProviderValues == Providers \cup {Nil}

\* The provider MountLibraryVFS mounts: httpfs.NewFileSystem(assets, ...),
\* the Tcl library.
LibraryFS == "L"

\* tcl.TCL_LIBRARY, the point MountLibraryVFS mounts the library at.  Its
\* value is not defined in vfs.go; the model takes an absolute path that
\* sorts after the other points, as a path below /usr does.
TCL_LIBRARY == <<"/", "l">>

\* The nil http.File / os.FileInfo.
NoFile ==
    [nil |-> TRUE, fs |-> Nil, name |-> <<>>, isDir |-> FALSE, statOk |-> FALSE,
     mode |-> {}, size |-> 0, modTime |-> 0]

\* The positions of the one bits of n >= 0, counted from position k.
RECURSIVE BitsFrom(_, _)
BitsFrom(n, k) ==
    IF n = 0 THEN {}
    ELSE (IF n % 2 = 1 THEN {k} ELSE {}) \cup BitsFrom(n \div 2, k + 1)

\* An os.FileMode: os.ModeDir (bit 31) for a directory, and the permission
\* bits perm.
FileMode(isDir, perm) == (IF isDir THEN {31} ELSE {}) \cup BitsFrom(perm, 0)

Entry(fs, name, isDir, statOk, mode, size, modTime) ==
    [nil |-> FALSE, fs |-> fs, name |-> name, isDir |-> isDir, statOk |-> statOk,
     mode |-> mode, size |-> size, modTime |-> modTime]

\* The names each provider can open.  A serves its directory d only under
\* the name with a trailing slash, and holds a file g whose Stat fails; B
\* serves d without the slash and a file f with write permission bits.
\* Modes are Go os.FileMode values, held as the set of their one bits.
FsEntries(fs) ==
    IF fs = "A"
    THEN { Entry("A", <<"/">>, TRUE, TRUE, FileMode(TRUE, 365), 0, 1),
           Entry("A", <<"/", "f">>, FALSE, TRUE, FileMode(FALSE, 292), 12, 2),
           Entry("A", <<"/", "d", "/">>, TRUE, TRUE, FileMode(TRUE, 365), 0, 3),
           Entry("A", <<"/", "g">>, FALSE, FALSE, FileMode(FALSE, 292), 7, 4) }
    ELSE IF fs = "B"
    THEN { Entry("B", <<"/">>, TRUE, TRUE, FileMode(TRUE, 493), 0, 5),
           Entry("B", <<"/", "f">>, FALSE, TRUE, FileMode(FALSE, 420), 5, 6),
           Entry("B", <<"/", "d">>, TRUE, TRUE, FileMode(TRUE, 493), 0, 7) }
    ELSE IF fs = LibraryFS
    THEN { Entry(LibraryFS, <<"/">>, TRUE, TRUE, FileMode(TRUE, 365), 0, 8),
           Entry(LibraryFS, <<"/", "i">>, FALSE, TRUE, FileMode(FALSE, 292), 9,
                 8) }
    ELSE {}

\* fs.Open(name): [err, file]
FsOpen(fs, name) ==
    IF \E e \in FsEntries(fs) : e.name = name
    THEN [err |-> FALSE, file |-> CHOOSE e \in FsEntries(fs) : e.name = name]
    ELSE [err |-> TRUE, file |-> NoFile]

\* --------------------------------------------------------------- the table

\* vfsMounts[point], nil when the map has no such key.
MapGet(m, k) == IF k \in DOMAIN m THEN m[k] ELSE Nil

\* vfsMounts[point] = fs
MapPut(m, k, v) == [x \in DOMAIN m \cup {k} |-> IF x = k THEN v ELSE m[x]]

\* delete(vfsMounts, point)
MapDelete(m, k) == [x \in DOMAIN m \ {k} |-> m[x]]

\* append(list[:i], list[i+1:]...), i 0-based
RemoveAt(list, i) == SubSeq(list, 1, i) \o SubSeq(list, i + 2, Len(list))

\* unmountNormalized without the test that something is mounted.
unmountNormalized_noCheck(points, mounts, n) ==
    IF n.err THEN [err |-> "invalid", points |-> points, mounts |-> mounts]
    ELSE [err |-> "",
          points |-> RemoveAt(points, SearchGeq(points, n.s)),
          mounts |-> MapDelete(mounts, n.s)]

\* lockedUnmountFileSystem after the point was normalized to n: [err,
\* points, mounts]
unmountNormalized(points, mounts, n) ==
    IF n.err THEN [err |-> "invalid", points |-> points, mounts |-> mounts]
    ELSE IF MapGet(mounts, n.s) = Nil
    THEN [err |-> "notmounted", points |-> points, mounts |-> mounts]
    ELSE [err |-> "",
          points |-> RemoveAt(points, SearchGeq(points, n.s)),
          mounts |-> MapDelete(mounts, n.s)]

\* lockedUnmountFileSystem: [err, points, mounts]
lockedUnmountFileSystem(points, mounts, point) ==
    unmountNormalized(points, mounts, normalizeMountPoint(point))

\* prefixAt that takes the first point of the list that is a prefix.
prefixAt_first(points, path, i) ==
    IF \E k \in 1 .. Len(points) : HasPrefix(path, points[k])
    THEN (CHOOSE k \in 1 .. Len(points) :
              /\ HasPrefix(path, points[k])
              /\ \A m \in 1 .. (k - 1) : ~HasPrefix(path, points[m])) - 1
    ELSE -1

\* findVFSprefix once sort.Search returned i (0-based)
prefixAt(points, path, i) ==
    IF i = Len(points)
    THEN IF HasPrefix(path, points[i]) THEN i - 1 ELSE -1
    ELSE IF HasPrefix(path, points[i + 1]) THEN i ELSE -1

\* findVFSprefix: a 0-based index into vfsPoints, or -1
findVFSprefix(path) ==
    IF Len(vfsPoints) = 0 THEN -1
    ELSE prefixAt(vfsPoints, path, SearchGeq(vfsPoints, path))

\* --------------------------------------------------------------- the hooks

\* tcl.TCL_OK
TCL_OK == 0

\* What XTcl_FSRegister can return: TCL_OK or an error code.
RegisterResults == {TCL_OK, TCL_OK + 1}

\* a & b on non-negative integers
RECURSIVE BitAnd(_, _)
BitAnd(a, b) ==
    IF a = 0 \/ b = 0 THEN 0
    ELSE 2 * BitAnd(a \div 2, b \div 2) + (IF a % 2 = 1 /\ b % 2 = 1 THEN 1 ELSE 0)

\* What vfsFile returns: [panic, file, point, fs, opens].  panic: the call
\* did not return.  opens lists the names passed to the provider's Open.
FileResult(panic, file, point, fs, opens) ==
    [panic |-> panic, file |-> file, point |-> point, fs |-> fs, opens |-> opens]

\* openRetry without the second Open.
openRetry_noRetry(point, fs, abs, first) ==
    IF ~first.err THEN FileResult(FALSE, first.file, point, fs, <<abs>>)
    ELSE FileResult(FALSE, NoFile, point, fs, <<abs>>)

\* openRetry with the second Open whatever the name ends in.
openRetry_alwaysRetry(point, fs, abs, first) ==
    IF ~first.err THEN FileResult(FALSE, first.file, point, fs, <<abs>>)
    ELSE FileResult(FALSE, FsOpen(fs, abs \o <<"/">>).file, point, fs,
                    <<abs, abs \o <<"/">> >>)

\* vfsFile once fs.Open(abs) returned first: the retry with a slash.
openRetry(point, fs, abs, first) ==
    IF ~first.err THEN FileResult(FALSE, first.file, point, fs, <<abs>>)
    ELSE IF ~HasSuffix(abs, <<"/">>)
    THEN FileResult(FALSE, FsOpen(fs, abs \o <<"/">>).file, point, fs,
                    <<abs, abs \o <<"/">> >>)
    ELSE FileResult(FALSE, NoFile, point, fs, <<abs>>)

\* vfsFile once the point, its provider and the path relative to the
\* point are known; Open on a nil provider panics.
openAt(point, fs, abs) ==
    IF fs = Nil THEN FileResult(TRUE, NoFile, point, Nil, <<>>)
    ELSE openRetry(point, fs, abs, FsOpen(fs, abs))

\* vfsFile once the point is known
fileAtPoint(path, point) ==
    openAt(point, MapGet(vfsMounts, point), SubSeq(path, Len(point), Len(path)))

\* vfsFile once findVFSprefix returned idx; vfsPoints[-1] panics.
fileAtIndex(path, idx) ==
    IF idx < 0 THEN FileResult(TRUE, NoFile, <<>>, Nil, <<>>)
    ELSE fileAtPoint(path, vfsPoints[idx + 1])

\* vfsFile
vfsFile(path) == fileAtIndex(path, findVFSprefix(path))

\* fileInfoOf that ignores the error of Stat.
fileInfoOf_ignoreErr(f) == f

\* vfsFileInfo once vfsFile returned f: file becomes the os.FileInfo, nil
\* when the file is nil or its Stat fails.
fileInfoOf(f) ==
    IF f.panic \/ f.file.nil THEN f
    ELSE IF ~f.file.statOk THEN [f EXCEPT !.file = NoFile]
    ELSE f

\* vfsFileInfo
vfsFileInfo(path) == fileInfoOf(vfsFile(path))

\* AccessRc that refuses only write permission, for files too.
AccessRc_writeOnly(fi, mode) ==
    IF BitAnd(mode, 146) # 0 THEN -1 ELSE 0

\* The return value of vfsAccess once the file info fi is known not nil:
\* mode&0222 for a directory, mode&0333 otherwise (146 and 219 in decimal).
AccessRc(fi, mode) ==
    IF fi.isDir
    THEN IF BitAnd(mode, 146) # 0 THEN -1 ELSE 0
    ELSE IF BitAnd(mode, 219) # 0 THEN -1 ELSE 0

\* The Tcl_StatBuf vfsStat stores for the file info fi.
StatBufOf(fi) ==
    [set |-> TRUE, atim |-> fi.modTime, ctim |-> fi.modTime, mode |-> fi.mode,
     mtim |-> fi.modTime, size |-> fi.size]

\* The caller's stat buffer before any hook has written to it.
NoStatBuf ==
    [set |-> FALSE, atim |-> 0, ctim |-> 0, mode |-> {}, mtim |-> 0, size |-> 0]

\* ------------------------------------------------------------- the commands

\* NewCommand is not called once this many registrations were made.
MaxRegs == 3

\* The callable the tests register as ::go::echo: it sets the result to its
\* argument words but the first, followed by the client data, joined by
\* spaces.  A string is the sequence of its words and separators.
RECURSIVE Join(_, _)
Join(words, sep) ==
    IF Len(words) = 0 THEN <<>>
    ELSE IF Len(words) = 1 THEN <<words[1]>>
    ELSE <<words[1], sep>> \o Join(Tail(words), sep)

Echo(clientData, args) == Join(Append(Tail(args), ToString(clientData)), " ")

\* A command registration: the name, the client data and whether a deletion
\* callback was given.
Registration(name, clientData, hasDelete) ==
    [name |-> name, clientData |-> clientData, hasDelete |-> hasDelete]

\* The interpreter after NewInterp: open, no command of the host.  regs
\* lists the registrations made, a registration is known by its position;
\* commands maps a name to its live registration; deleted lists the calls
\* of deletion callbacks in order, each with the client data it was given.
NewInterp == [closed |-> FALSE, commands |-> << >>, regs |-> << >>, deleted |-> << >>]

\* The live registration ids.
LiveRegs(in) == {in.commands[n] : n \in DOMAIN in.commands}

\* The command of registration reg is deleted: it is no longer live and its
\* deletion callback, if it has one, is called with its client data.
deleteCommand_keepLive(in, reg) ==
    [in EXCEPT !.deleted = IF in.regs[reg].hasDelete
                           THEN Append(in.deleted,
                                       [reg |-> reg,
                                        clientData |-> in.regs[reg].clientData])
                           ELSE in.deleted]

deleteCommand(in, reg) ==
    [in EXCEPT !.commands = MapDelete(in.commands, in.regs[reg].name),
               !.deleted = IF in.regs[reg].hasDelete
                           THEN Append(in.deleted,
                                       [reg |-> reg,
                                        clientData |-> in.regs[reg].clientData])
                           ELSE in.deleted]

\* unregister(reg): nothing happens unless the registration is live.
unregister(in, reg) == IF reg \in LiveRegs(in) THEN deleteCommand(in, reg) ELSE in

\* The interpreter once the registration, if any, that holds the name is
\* deleted.
replaced_keepOld(in, name) == in

replaced(in, name) ==
    IF name \in DOMAIN in.commands THEN deleteCommand(in, in.commands[name]) ELSE in

\* register: the new registration is installed in interpreter in, from
\* which the previous holder of the name is gone.
install(in, name, clientData, hasDelete) ==
    [in EXCEPT !.regs = Append(in.regs, Registration(name, clientData, hasDelete)),
               !.commands = MapPut(in.commands, name, Len(in.regs) + 1)]

register(in, name, clientData, hasDelete) ==
    install(replaced(in, name), name, clientData, hasDelete)

\* Every live registration is deleted, in the order of registration.
RECURSIVE deleteAll(_, _)
deleteAll(in, reg) ==
    IF reg > Len(in.regs) THEN in
    ELSE deleteAll(unregister(in, reg), reg + 1)

\* The record of a call of the command dispatcher: reg the registration
\* made or deleted, script the words of the script evaluated, calls the calls of the host callable made during the
\* call, each with its client data and argument words, result the
\* evaluation result, fired the deletion callbacks called during the call.
CmdCall(op, name, reg, script, err, calls, result, fired) ==
    [op |-> op, name |-> name, reg |-> reg, script |-> script, err |-> err,
     calls |-> calls,
     result |-> result, fired |-> fired, panic |-> FALSE]

\* The deletion callbacks called between interpreter states a and b.
Fired(a, b) == SubSeq(b.deleted, Len(a.deleted) + 1, Len(b.deleted))

\* -------------------------------------------------------------- the threads

\* The threads that call into vfs.go at the same time.
MaxThreads == 2

Threads == 1 .. MaxThreads

\* The hook whose provider's Open is executing the call a thread is in, for
\* a call made from inside a provider; NoFrame for a call made from outside.
NoFrame == [op |-> "none", arg |-> <<>>, fs |-> Nil, idx |-> -1, abs |-> <<>>]

Frame(th) ==
    [op |-> th.op, arg |-> th.arg, fs |-> th.fs, idx |-> th.idx, abs |-> th.abs]

\* What a thread is doing: pc is the statement it is at ("idle": in no call
\* of vfs.go), op the function it called, arg its point or path, fs the
\* provider it passed or found, idx what findVFSprefix returned, abs the
\* path relative to the point vfsFile computed, outer the hook the call
\* returns into.
ThreadAt(pc, op, arg, fs, idx) ==
    [pc |-> pc, op |-> op, arg |-> arg, fs |-> fs, idx |-> idx, abs |-> <<>>,
     outer |-> NoFrame]

IdleThread == ThreadAt("idle", "none", <<>>, Nil, -1)

\* ------------------------------------------------------------ the actions

\* The inputs of MountFileSystem and UnmountFileSystem.
MountInputs ==
    { <<>>, <<".">>, <<"/">>, <<"/", "a">>, <<"/", "a", "/">>,
      <<"/", "a", "/", "/">>, <<"/", "a", "/", ".", "/">>,
      <<"/", "a", "/", "b">>, <<"a">> }

\* The paths the runtime passes to the hooks.
QueryPaths ==
    { <<"/", "a", "/">>, <<"/", "a", "/", "f">>, <<"/", "a", "/", "d">>,
      <<"/", "a", "/", "g">>, <<"/", "a", "/", "x">>,
      <<"/", "a", "/", "b", "/", "f">>, <<"a", "/", "f">> }

\* The access modes: F_OK (0), X_OK (1), W_OK (2), R_OK (4), R_OK|W_OK.
Modes == {0, 1, 2, 4, 6}

\* The record of the last call: its arguments, what it returned and, for
\* vfsStat, the caller's stat buffer as the call left it.  arg is the path
\* of a hook; point is the normalized point of a mount or unmount and the
\* resolved point of a hook.
Call(op, arg, mode, fs, point, panic, rc, err, opens, buf) ==
    [op |-> op, arg |-> arg, mode |-> mode, fs |-> fs, point |-> point,
     panic |-> panic, rc |-> rc, err |-> err, opens |-> opens, buf |-> buf]

Init ==
    /\ vfsIsRegistered = FALSE
    /\ vfsMounts = << >>
    /\ vfsPoints = << >>
    /\ objects = << >>
    /\ channels = {}
    /\ interp = NewInterp
    /\ vfsMu = 0
    /\ thread = [t \in Threads |-> IdleThread]
    /\ last = Call("none", <<>>, 0, Nil, <<>>, FALSE, 0, "", <<>>, NoStatBuf)

\* mountNormalized registering on every call, registered or not
mountNormalized_reRegister(n, u, fs, rc) ==
    IF n.err
    THEN /\ last' = Call("Mount", <<>>, 0, fs, <<>>, FALSE, 0, "invalid", <<>>,
                         NoStatBuf)
         /\ UNCHANGED <<vfsIsRegistered, vfsMounts, vfsPoints, objects,
                        channels, interp, vfsMu, thread>>
    ELSE IF rc # TCL_OK
    THEN /\ last' = Call("Mount", <<>>, 0, fs, n.s, FALSE, 0, "register", <<>>,
                         NoStatBuf)
         /\ UNCHANGED <<vfsIsRegistered, vfsMounts, vfsPoints, objects,
                        channels, interp, vfsMu, thread>>
    ELSE /\ Len(u.points) < MaxPoints
         /\ vfsIsRegistered' = TRUE
         /\ vfsMounts' = MapPut(u.mounts, n.s, fs)
         /\ vfsPoints' = SortStrings(Append(u.points, n.s))
         /\ last' = Call("Mount", <<>>, 0, fs, n.s, FALSE, 0, "", <<>>, NoStatBuf)
         /\ UNCHANGED <<objects, channels, interp, vfsMu, thread>>

\* MountFileSystem once the point was normalized to n and
\* lockedUnmountFileSystem returned u.
mountNormalized(n, u, fs, rc) ==
    IF n.err
    THEN /\ last' = Call("Mount", <<>>, 0, fs, <<>>, FALSE, 0, "invalid", <<>>,
                         NoStatBuf)
         /\ UNCHANGED <<vfsIsRegistered, vfsMounts, vfsPoints, objects,
                        channels, interp, vfsMu, thread>>
    ELSE IF ~vfsIsRegistered /\ rc # TCL_OK
    THEN /\ last' = Call("Mount", <<>>, 0, fs, n.s, FALSE, 0, "register", <<>>,
                         NoStatBuf)
         /\ UNCHANGED <<vfsIsRegistered, vfsMounts, vfsPoints, objects,
                        channels, interp, vfsMu, thread>>
    ELSE /\ Len(u.points) < MaxPoints
         /\ vfsIsRegistered' = TRUE
         /\ vfsMounts' = MapPut(u.mounts, n.s, fs)
         /\ vfsPoints' = SortStrings(Append(u.points, n.s))
         /\ last' = Call("Mount", <<>>, 0, fs, n.s, FALSE, 0, "", <<>>, NoStatBuf)
         /\ UNCHANGED <<objects, channels, interp, vfsMu, thread>>

\* MountFileSystem(point, fs); rc is what XTcl_FSRegister returns if called.
MountFileSystem(point, fs, rc) ==
    mountNormalized(normalizeMountPoint(point),
                    lockedUnmountFileSystem(vfsPoints, vfsMounts,
                                            normalizeMountPoint(point).s),
                    fs, rc)

\* unmountDone that releases every handle when a point is unmounted.
unmountDone_dropChannels(n, u) ==
    /\ vfsPoints' = u.points
    /\ vfsMounts' = u.mounts
    /\ objects' = IF u.err = "" THEN << >> ELSE objects
    /\ channels' = IF u.err = "" THEN {} ELSE channels
    /\ last' = Call("Unmount", <<>>, 0, Nil, n.s, FALSE, 0, u.err, <<>>, NoStatBuf)
    /\ UNCHANGED <<vfsIsRegistered, interp, vfsMu, thread>>

\* MountLibraryVFS(): it mounts the library at tcl.TCL_LIBRARY and returns
\* the point, or the error of MountFileSystem.
MountLibraryVFS(rc) == MountFileSystem(TCL_LIBRARY, LibraryFS, rc)

\* UnmountFileSystem once lockedUnmountFileSystem returned u for the point
\* normalized to n.
unmountDone(n, u) ==
    /\ vfsPoints' = u.points
    /\ vfsMounts' = u.mounts
    /\ last' = Call("Unmount", <<>>, 0, Nil, n.s, FALSE, 0, u.err, <<>>, NoStatBuf)
    /\ UNCHANGED <<vfsIsRegistered, objects, channels, interp, vfsMu, thread>>

\* UnmountFileSystem(point)
UnmountFileSystem(point) ==
    unmountDone(normalizeMountPoint(point),
                lockedUnmountFileSystem(vfsPoints, vfsMounts, point))

\* vfsPathInFilesystem once findVFSprefix returned idx
pathInFilesystemAt(path, idx) ==
    /\ last' = Call("PathInFilesystem", path, 0, Nil,
                    IF idx >= 0 THEN vfsPoints[idx + 1] ELSE <<>>,
                    FALSE, IF idx >= 0 THEN TCL_OK ELSE -1, "", <<>>, NoStatBuf)
    /\ UNCHANGED <<vfsIsRegistered, vfsMounts, vfsPoints, objects, channels,
                   interp, vfsMu, thread>>

\* vfsPathInFilesystem
vfsPathInFilesystem(path) == pathInFilesystemAt(path, findVFSprefix(path))

\* The host stream (http.File) fs.Open returned for file: its read position
\* and whether its Close has been called.  got is the history of the bytes
\* channelInput has reported to its caller from this stream.
Stream(file) ==
    [nil |-> file.nil, fs |-> file.fs, name |-> file.name, size |-> file.size,
     pos |-> 0, closed |-> FALSE, got |-> <<>>]

NoStream == Stream(NoFile)

\* The record of a stat or access hook call: the call, and the host stream
\* vfsFile obtained for it, as the hook leaves it.
HookCall(c, stream) ==
    [op |-> c.op, arg |-> c.arg, mode |-> c.mode, fs |-> c.fs, point |-> c.point,
     panic |-> c.panic, rc |-> c.rc, err |-> c.err, opens |-> c.opens,
     buf |-> c.buf, stream |-> stream]

\* The stream vfsFileInfo got from vfsFile, as vfsFileInfo and its caller
\* leave it: neither calls Close.
infoStream(f) ==
    IF f.panic \/ f.file.nil THEN NoStream ELSE Stream(f.file)

\* vfsStat once vfsFileInfo returned r and left the stream s; the caller's
\* buffer holds NoStatBuf before the call.
statOf(path, r, s) ==
    /\ last' = IF r.panic
               THEN HookCall(Call("Stat", path, 0, r.fs, r.point, TRUE, 0, "",
                                  r.opens, NoStatBuf), s)
               ELSE IF r.file.nil
               THEN HookCall(Call("Stat", path, 0, r.fs, r.point, FALSE, -1, "",
                                  r.opens, NoStatBuf), s)
               ELSE HookCall(Call("Stat", path, 0, r.fs, r.point, FALSE, 0, "",
                                  r.opens, StatBufOf(r.file)), s)
    /\ UNCHANGED <<vfsIsRegistered, vfsMounts, vfsPoints, objects, channels,
                   interp, vfsMu, thread>>

\* vfsStat
vfsStat(path) == statOf(path, vfsFileInfo(path), infoStream(vfsFile(path)))

\* vfsAccess once vfsFileInfo returned r and left the stream s
accessOf(path, mode, r, s) ==
    /\ last' = IF r.panic
               THEN HookCall(Call("Access", path, mode, r.fs, r.point, TRUE, 0, "",
                                  r.opens, NoStatBuf), s)
               ELSE IF r.file.nil
               THEN HookCall(Call("Access", path, mode, r.fs, r.point, FALSE, -1,
                                  "", r.opens, NoStatBuf), s)
               ELSE HookCall(Call("Access", path, mode, r.fs, r.point, FALSE,
                                  AccessRc(r.file, mode), "", r.opens, NoStatBuf),
                             s)
    /\ UNCHANGED <<vfsIsRegistered, vfsMounts, vfsPoints, objects, channels,
                   interp, vfsMu, thread>>

\* vfsAccess
vfsAccess(path, mode) ==
    accessOf(path, mode, vfsFileInfo(path), infoStream(vfsFile(path)))

Next ==
    \/ \E point \in MountInputs, fs \in ProviderValues, rc \in RegisterResults :
           MountFileSystem(point, fs, rc)
    \/ \E rc \in RegisterResults : MountLibraryVFS(rc)
    \/ \E point \in MountInputs \cup {TCL_LIBRARY} : UnmountFileSystem(point)
    \/ \E path \in QueryPaths : vfsPathInFilesystem(path)
    \/ \E path \in QueryPaths : vfsStat(path)
    \/ \E path \in QueryPaths, mode \in Modes : vfsAccess(path, mode)

Spec == Init /\ [][Next]_vars

\* ------------------------------------------------------------- the channels

\* addObject is not called once this many handles are live; the handles it
\* hands out are 1 .. MaxHandles.
MaxHandles == 2

Handles == 1 .. MaxHandles

\* The bytes of a host file of the given size: byte i of a file is i.
Content(size) == [i \in 1 .. size |-> i]

\* The tokens addObject can pick: those that are not live (a released
\* token can be picked again).
FreeTokens_any(objs) == Handles

FreeTokens(objs) == Handles \ DOMAIN objs

\* The handle registry.  addObject(o) stores o under the token t it picks
\* among the tokens that are not live.
addObject(objs, o, t) == MapPut(objs, t, o)

\* removeObject that releases every token that holds the object of t.
removeObject_byValue(objs, t) ==
    IF t \in DOMAIN objs
    THEN [x \in {y \in DOMAIN objs : objs[y] # objs[t]} |-> objs[x]]
    ELSE objs

\* removeObject(t): t is no longer live; releasing a token that is not live
\* changes nothing.
removeObject(objs, t) == MapDelete(objs, t)

\* getObject(t): the object stored under t, or not found
getObject(objs, t) ==
    IF t \in DOMAIN objs THEN [found |-> TRUE, o |-> objs[t]]
    ELSE [found |-> FALSE, o |-> NoStream]

\* What Read returned: n bytes and err ("" is nil).
ReadResult(n, err) == [n |-> n, err |-> err]

NoRead == ReadResult(0, "")

\* The most bytes Read(p) with len(p) = k can store from stream s.
MaxRead(s, k) == IF k < s.size - s.pos THEN k ELSE s.size - s.pos

\* What file.Read(p) with len(p) = k > 0 can return on stream s, as
\* io.Reader allows: up to k of the bytes that remain, none included, with
\* a nil error; the bytes that remain, if they fit, with io.EOF; or up to k
\* of them with a failure of the host.
StreamRead(s, k) ==
    { ReadResult(n, "") : n \in 0 .. MaxRead(s, k) }
      \cup (IF s.size - s.pos <= k THEN {ReadResult(s.size - s.pos, "EOF")}
            ELSE {})
      \cup { ReadResult(n, "error") : n \in 0 .. MaxRead(s, k) }

\* The record of a call of vfsOpenFileChannel or of a channel driver hook:
\* the fields of Call, and h the handle passed or created, found whether h
\* was live when the call began, created whether a native channel was
\* created, buf and toRead the arguments of channelInput, reads how many
\* times Read was called, read what it returned, errorCode what the call
\* stored through errorCodePtr (0: nothing), stream the host stream of h as
\* the call left it.
ChanCall(c, h, found, created, buf, toRead, reads, read, errorCode, stream) ==
    [op |-> c.op, arg |-> c.arg, mode |-> c.mode, fs |-> c.fs, point |-> c.point,
     panic |-> c.panic, rc |-> c.rc, err |-> c.err, opens |-> c.opens,
     buf |-> c.buf, h |-> h, found |-> found, created |-> created,
     bufPtr |-> buf, toRead |-> toRead, reads |-> reads, read |-> read,
     errorCode |-> errorCode, stream |-> stream]

\* vfsOpenFileChannel once vfsFile returned r; t is the token addObject
\* picks.
openFileChannelOf_storeFirst(path, mode, r, t) ==
    IF r.panic
    THEN /\ last' = ChanCall(Call("Open", path, mode, r.fs, r.point, TRUE, 0, "",
                                  r.opens, NoStatBuf),
                             0, FALSE, FALSE, 0, 0, 0, NoRead, 0, NoStream)
         /\ UNCHANGED <<vfsIsRegistered, vfsMounts, vfsPoints, objects,
                        channels, interp, vfsMu, thread>>
    ELSE /\ t \in FreeTokens(objects)
         /\ objects' = addObject(objects, Stream(r.file), t)
         /\ channels' = IF r.file.nil THEN channels ELSE channels \cup {t}
         /\ last' = ChanCall(Call("Open", path, mode, r.fs, r.point, r.file.nil,
                                  0, "", r.opens, NoStatBuf),
                             t, FALSE, ~r.file.nil, 0, 0, 0, NoRead, 0,
                             Stream(r.file))
         /\ UNCHANGED <<vfsIsRegistered, vfsMounts, vfsPoints, interp, vfsMu,
                        thread>>

openFileChannelOf(path, mode, r, t) ==
    IF r.panic \/ r.file.nil
    THEN /\ last' = ChanCall(Call("Open", path, mode, r.fs, r.point, TRUE, 0, "",
                                  r.opens, NoStatBuf),
                             0, FALSE, FALSE, 0, 0, 0, NoRead, 0, NoStream)
         /\ UNCHANGED <<vfsIsRegistered, vfsMounts, vfsPoints, objects,
                        channels, interp, vfsMu, thread>>
    ELSE /\ t \in FreeTokens(objects)
         /\ objects' = addObject(objects, Stream(r.file), t)
         /\ channels' = channels \cup {t}
         /\ last' = ChanCall(Call("Open", path, mode, r.fs, r.point, FALSE, 0, "",
                                  r.opens, NoStatBuf),
                             t, FALSE, TRUE, 0, 0, 0, NoRead, 0, Stream(r.file))
         /\ UNCHANGED <<vfsIsRegistered, vfsMounts, vfsPoints, interp, vfsMu,
                        thread>>

\* vfsOpenFileChannel
vfsOpenFileChannel(path, mode, t) ==
    openFileChannelOf(path, mode, vfsFile(path), t)

\* channelClose once getObject-like lookup g tells what h held; the runtime
\* calls it when it closes the channel of h, which is then gone.
closeOf_noRemove(h, g) ==
    /\ channels' = channels \ {h}
    /\ last' = ChanCall(Call("Close", <<>>, 0, Nil, <<>>, FALSE, 0, "", <<>>,
                             NoStatBuf),
                        h, g.found, FALSE, 0, 0, 0, NoRead, 0, g.o)
    /\ UNCHANGED <<vfsIsRegistered, vfsMounts, vfsPoints, objects, interp,
                   vfsMu, thread>>

closeOf(h, g) ==
    /\ objects' = removeObject(objects, h)
    /\ channels' = channels \ {h}
    /\ last' = ChanCall(Call("Close", <<>>, 0, Nil, <<>>, FALSE, 0, "", <<>>,
                             NoStatBuf),
                        h, g.found, FALSE, 0, 0, 0, NoRead, 0, g.o)
    /\ UNCHANGED <<vfsIsRegistered, vfsMounts, vfsPoints, interp, vfsMu,
                   thread>>

\* channelClose
channelClose(h) == closeOf(h, getObject(objects, h))

\* What channelInput returns after Read returned n and err.
InputRc_eofFails(n, err, toRead) ==
    IF n # 0 THEN n ELSE IF err # "" THEN -1 ELSE 0

InputRc(n, err, toRead) ==
    IF n # 0 THEN n ELSE IF err # "" /\ err # "EOF" THEN -1 ELSE 0

\* The first rc bytes of the caller's buffer, zeroed before the call, after
\* Read stored n bytes of stream s in it.
Delivered(s, n, rc) ==
    IF rc <= 0 THEN <<>>
    ELSE [i \in 1 .. rc |-> IF i <= n THEN Content(s.size)[s.pos + i] ELSE 0]

\* Stream s after Read returned n bytes of it and channelInput returned rc.
AfterRead(s, n, rc) ==
    [s EXCEPT !.pos = s.pos + n, !.got = s.got \o Delivered(s, n, rc)]

\* channelInput past its first test: g is what getObject returned, o what
\* Read returns, rc what channelInput returns then.
inputRead(h, buf, toRead, g, o, rc) ==
    IF ~g.found
    THEN /\ last' = ChanCall(Call("Input", <<>>, 0, Nil, <<>>, TRUE, 0, "", <<>>,
                                  NoStatBuf),
                             h, FALSE, FALSE, buf, toRead, 0, NoRead, 0, NoStream)
         /\ UNCHANGED <<vfsIsRegistered, vfsMounts, vfsPoints, objects,
                        channels, interp, vfsMu, thread>>
    ELSE /\ objects' = [objects EXCEPT ![h] = AfterRead(g.o, o.n, rc)]
         /\ last' = ChanCall(Call("Input", <<>>, 0, Nil, <<>>, FALSE, rc, "", <<>>,
                                  NoStatBuf),
                             h, TRUE, FALSE, buf, toRead, 1, o, 0,
                             AfterRead(g.o, o.n, rc))
         /\ UNCHANGED <<vfsIsRegistered, vfsMounts, vfsPoints, channels, interp,
                        vfsMu, thread>>

inputOf_noTest(h, buf, toRead, g, o) ==
    inputRead(h, buf, toRead, g, o, InputRc(o.n, o.err, toRead))

inputOf(h, buf, toRead, g, o) ==
    IF buf = 0 \/ toRead = 0
    THEN /\ last' = ChanCall(Call("Input", <<>>, 0, Nil, <<>>, FALSE, 0, "", <<>>,
                                  NoStatBuf),
                             h, g.found, FALSE, buf, toRead, 0, NoRead, 0, g.o)
         /\ UNCHANGED <<vfsIsRegistered, vfsMounts, vfsPoints, objects,
                        channels, interp, vfsMu, thread>>
    ELSE inputRead(h, buf, toRead, g, o, InputRc(o.n, o.err, toRead))

\* channelInput; o is what Read returns if it is called.
channelInput(h, buf, toRead, o) ==
    inputOf(h, buf, toRead, getObject(objects, h), o)

\* channelSeek
channelSeek_seeks(h, offset, mode) ==
    /\ h \in DOMAIN objects
    /\ objects' = [objects EXCEPT ![h].pos = offset]
    /\ last' = ChanCall(Call("Seek", <<>>, mode, Nil, <<>>, FALSE, offset, "",
                             <<>>, NoStatBuf),
                        h, TRUE, FALSE, 0, 0, 0, NoRead, 0, objects'[h])
    /\ UNCHANGED <<vfsIsRegistered, vfsMounts, vfsPoints, channels, interp,
                   vfsMu, thread>>

channelSeek(h, offset, mode) ==
    /\ last' = ChanCall(Call("Seek", <<>>, mode, Nil, <<>>, TRUE, 0, "", <<>>,
                             NoStatBuf),
                        h, h \in DOMAIN objects, FALSE, 0, 0, 0, NoRead, 0,
                        getObject(objects, h).o)
    /\ UNCHANGED <<vfsIsRegistered, vfsMounts, vfsPoints, objects, channels,
                   interp, vfsMu, thread>>

\* channelWatch
channelWatch_silent(h, mask) ==
    /\ last' = ChanCall(Call("Watch", <<>>, mask, Nil, <<>>, FALSE, 0, "", <<>>,
                             NoStatBuf),
                        h, h \in DOMAIN objects, FALSE, 0, 0, 0, NoRead, 0,
                        getObject(objects, h).o)
    /\ UNCHANGED <<vfsIsRegistered, vfsMounts, vfsPoints, objects, channels,
                   interp, vfsMu, thread>>

channelWatch(h, mask) ==
    /\ last' = ChanCall(Call("Watch", <<>>, mask, Nil, <<>>, mask # 0, 0, "", <<>>,
                             NoStatBuf),
                        h, h \in DOMAIN objects, FALSE, 0, 0, 0, NoRead, 0,
                        getObject(objects, h).o)
    /\ UNCHANGED <<vfsIsRegistered, vfsMounts, vfsPoints, objects, channels,
                   interp, vfsMu, thread>>

\* The inputs of the channel specification: one provider mounted at /a, an
\* existing file and a missing one, and a path outside every mount point.
ChanProviders == {"B"}

ChanPoints == { <<"/", "a">> }

ChanPaths == { <<"/", "a", "/", "f">>, <<"/", "a", "/", "x">>, <<"a", "/", "f">> }

\* The open modes: O_RDONLY (0), O_WRONLY (1).
OpenModes == {0, 1}

\* The access modes of the channel specification: F_OK, W_OK.
ChanModes == {0, 2}

\* The buffer addresses (0 is the null pointer) and the sizes requested.
BufPtrs == {0, 1}

ReadSizes == {0, 1, 3}

\* What Read can return when channelInput(h, ...) asks for toRead bytes.
ReadResults(h, toRead) ==
    IF h \in DOMAIN objects /\ toRead > 0 THEN StreamRead(objects[h], toRead)
    ELSE {NoRead}

SeekOffsets == {0}

\* The event masks of channelWatch: none (0), TCL_READABLE (2).
WatchMasks == {0, 2}

NextChan ==
    \/ \E point \in ChanPoints, fs \in ChanProviders :
           MountFileSystem(point, fs, TCL_OK)
    \/ \E point \in ChanPoints : UnmountFileSystem(point)
    \/ \E path \in ChanPaths : vfsStat(path)
    \/ \E path \in ChanPaths, mode \in ChanModes : vfsAccess(path, mode)
    \/ \E path \in ChanPaths, mode \in OpenModes, t \in Handles :
           vfsOpenFileChannel(path, mode, t)
    \/ \E h \in Handles : channelClose(h)
    \/ \E h \in Handles, buf \in BufPtrs, toRead \in ReadSizes :
           \E o \in ReadResults(h, toRead) : channelInput(h, buf, toRead, o)
    \/ \E h \in Handles, offset \in SeekOffsets, mode \in {0} :
           channelSeek(h, offset, mode)
    \/ \E h \in Handles, mask \in WatchMasks : channelWatch(h, mask)

SpecChan == Init /\ [][NextChan]_vars

\* The inputs of the specification of the hooks that open a host file: both
\* providers, and paths that open at the first call, only with the slash
\* appended, and not at all.
HookProviders == {"A", "B"}

HookPaths ==
    { <<"/", "a", "/", "f">>, <<"/", "a", "/", "d">>,
      <<"/", "a", "/", "x">>, <<"/", "a", "/", "x", "/">> }

\* The access modes of that specification: F_OK (0), X_OK (1).
HookModes == {0, 1}

\* The stat, access and open hooks on one mount point.
NextHooks ==
    \/ \E point \in ChanPoints, fs \in HookProviders :
           MountFileSystem(point, fs, TCL_OK)
    \/ \E point \in ChanPoints : UnmountFileSystem(point)
    \/ \E path \in HookPaths : vfsStat(path)
    \/ \E path \in HookPaths, mode \in HookModes : vfsAccess(path, mode)
    \/ \E path \in HookPaths, mode \in {0}, t \in Handles :
           vfsOpenFileChannel(path, mode, t)
    \/ \E h \in Handles : channelClose(h)

SpecHooks == Init /\ [][NextHooks]_vars

\* ----------------------------------------------------- the command actions

\* Interp.NewCommand
NewCommand(name, clientData, hasDelete) ==
    /\ Len(interp.regs) < MaxRegs
    /\ IF interp.closed
       THEN /\ last' = CmdCall("NewCommand", name, 0, <<>>, "closed", <<>>, <<>>,
                               <<>>)
            /\ UNCHANGED interp
       ELSE /\ interp' = register(interp, name, clientData, hasDelete)
            /\ last' = CmdCall("NewCommand", name, Len(interp.regs) + 1, <<>>, "",
                               <<>>, <<>>, Fired(interp, interp'))
    /\ UNCHANGED <<vfsIsRegistered, vfsMounts, vfsPoints, objects, channels,
                   vfsMu, thread>>

\* The explicit unregistration of registration reg.
Unregister(reg) ==
    /\ interp' = unregister(interp, reg)
    /\ last' = CmdCall("Unregister", <<>>, reg, <<>>, "", <<>>, <<>>,
                       Fired(interp, interp'))
    /\ UNCHANGED <<vfsIsRegistered, vfsMounts, vfsPoints, objects, channels,
                   vfsMu, thread>>

\* The calls of the host callable the evaluation of the script makes: one,
\* with the client data of the command its first word names.
invoke_noClientData(in, words) ==
    <<[clientData |-> 0, args |-> words]>>

invoke(in, words) ==
    <<[clientData |-> in.regs[in.commands[words[1]]].clientData, args |-> words]>>

\* Interp.Eval of a script of one command, given as its words
evalOf(words, calls) ==
    /\ last' = CmdCall("Eval", words[1], interp.commands[words[1]], words, "",
                       calls, Echo(calls[1].clientData, calls[1].args), <<>>)
    /\ UNCHANGED <<vfsIsRegistered, vfsMounts, vfsPoints, objects, channels,
                   interp, vfsMu, thread>>

Eval(words) ==
    IF interp.closed \/ words[1] \notin DOMAIN interp.commands
    THEN /\ last' = CmdCall("Eval", words[1], 0, words,
                            IF interp.closed THEN "closed"
                            ELSE "invalid command name",
                            <<>>, <<>>, <<>>)
         /\ UNCHANGED <<vfsIsRegistered, vfsMounts, vfsPoints, objects,
                        channels, interp, vfsMu, thread>>
    ELSE evalOf(words, invoke(interp, words))

\* Interp.Close
Close ==
    /\ interp' = [deleteAll(interp, 1) EXCEPT !.closed = TRUE]
    /\ last' = CmdCall("Close", <<>>, 0, <<>>,
                       IF interp.closed THEN "closed" ELSE "", <<>>, <<>>,
                       Fired(interp, interp'))
    /\ UNCHANGED <<vfsIsRegistered, vfsMounts, vfsPoints, objects, channels,
                   vfsMu, thread>>

\* The inputs of the command specification.
CommandNames == {"::go::echo", "::go::twice"}

ClientData == {42, 7}

Scripts == { <<"::go::echo", "123", "foo", "bar">>, <<"::go::twice">>,
             <<"::go::none", "1">> }

NextCmd ==
    \/ \E name \in CommandNames, clientData \in ClientData, hasDelete \in BOOLEAN :
           NewCommand(name, clientData, hasDelete)
    \/ \E reg \in 1 .. MaxRegs : Unregister(reg)
    \/ \E words \in Scripts : Eval(words)
    \/ Close

SpecCmd == Init /\ [][NextCmd]_vars

\* ------------------------------------------------------ the thread actions

\* In this specification a call of vfs.go is not one action: every
\* statement that locks, reads or writes the table or calls the provider is
\* a step of the calling thread, and the steps of the threads interleave.

\* Thread t moves to pc.
Goto(t, pc) == [thread EXCEPT ![t].pc = pc]

\* A thread calls MountFileSystem: the point is normalized before the lock
\* is asked for (lines 49-54).
BeginMount(t, point, fs) ==
    /\ thread[t].pc = "idle"
    /\ ~normalizeMountPoint(point).err
    /\ thread' = [thread EXCEPT
                      ![t] = ThreadAt("lock", "Mount", normalizeMountPoint(point).s,
                                      fs, -1)]
    /\ UNCHANGED <<vfsIsRegistered, vfsMounts, vfsPoints, objects, channels,
                   interp, vfsMu, last>>

\* How many threads are in a call of vfsOpenFileChannel.
Opening ==
    Cardinality({u \in Threads :
                     thread[u].op = "Open" \/ thread[u].outer.op = "Open"})

\* A thread calls UnmountFileSystem or a hook: its first statement asks for
\* the lock (vfsPathInFilesystem reads its argument first).  The open hook
\* is not called once every handle is live or about to be.
BeginCall(t, op, arg) ==
    /\ thread[t].pc = "idle"
    /\ op = "Open" => Cardinality(DOMAIN objects) + Opening < MaxHandles
    /\ thread' = [thread EXCEPT ![t] = ThreadAt("lock", op, arg, Nil, -1)]
    /\ UNCHANGED <<vfsIsRegistered, vfsMounts, vfsPoints, objects, channels,
                   interp, vfsMu, last>>

\* vfsMu.Lock(): the thread waits until the lock is free.
firstStatement(op) ==
    IF op = "Mount" THEN "register"
    ELSE IF op = "Unmount" THEN "unmount"
    ELSE "find"

Lock_noLock(t) ==
    /\ thread[t].pc = "lock"
    /\ thread' = Goto(t, firstStatement(thread[t].op))
    /\ UNCHANGED <<vfsIsRegistered, vfsMounts, vfsPoints, objects, channels,
                   interp, vfsMu, last>>

Lock(t) ==
    /\ thread[t].pc = "lock"
    /\ vfsMu = 0
    /\ vfsMu' = t
    /\ thread' = Goto(t, firstStatement(thread[t].op))
    /\ UNCHANGED <<vfsIsRegistered, vfsMounts, vfsPoints, objects, channels,
                   interp, last>>

\* MountFileSystem lines 58-68; rc is what XTcl_FSRegister returns if
\* called: the mount returns its error when it is not TCL_OK.
Register(t, rc) ==
    /\ thread[t].pc = "register"
    /\ vfsIsRegistered' = (vfsIsRegistered \/ rc = TCL_OK)
    /\ thread' = Goto(t, IF vfsIsRegistered \/ rc = TCL_OK THEN "unmount"
                         ELSE "unlock")
    /\ UNCHANGED <<vfsMounts, vfsPoints, objects, channels, interp, vfsMu, last>>

\* Where lockedUnmountFileSystem returns to.
afterUnmount(op) == IF op = "Mount" THEN "put" ELSE "unlock"

\* lockedUnmountFileSystem lines 88-98: it returns an error, or removes the
\* point from the list.
unmountPoints(t, n) ==
    IF n.err \/ MapGet(vfsMounts, n.s) = Nil
    THEN /\ thread' = Goto(t, afterUnmount(thread[t].op))
         /\ UNCHANGED <<vfsIsRegistered, vfsMounts, vfsPoints, objects, channels,
                        interp, vfsMu, last>>
    ELSE /\ vfsPoints' = RemoveAt(vfsPoints, SearchGeq(vfsPoints, n.s))
         /\ thread' = [thread EXCEPT ![t].pc = "delete", ![t].arg = n.s]
         /\ UNCHANGED <<vfsIsRegistered, vfsMounts, objects, channels, interp,
                        vfsMu, last>>

UnmountPoints(t) ==
    /\ thread[t].pc = "unmount"
    /\ unmountPoints(t, normalizeMountPoint(thread[t].arg))

\* lockedUnmountFileSystem line 99
UnmountDelete(t) ==
    /\ thread[t].pc = "delete"
    /\ vfsMounts' = MapDelete(vfsMounts, thread[t].arg)
    /\ thread' = Goto(t, afterUnmount(thread[t].op))
    /\ UNCHANGED <<vfsIsRegistered, vfsPoints, objects, channels, interp, vfsMu,
                   last>>

\* MountFileSystem line 71
MountPut(t) ==
    /\ thread[t].pc = "put"
    /\ vfsMounts' = MapPut(vfsMounts, thread[t].arg, thread[t].fs)
    /\ thread' = Goto(t, "append")
    /\ UNCHANGED <<vfsIsRegistered, vfsPoints, objects, channels, interp, vfsMu,
                   last>>

\* MountFileSystem line 72
MountAppend(t) ==
    /\ thread[t].pc = "append"
    /\ vfsPoints' = Append(vfsPoints, thread[t].arg)
    /\ thread' = Goto(t, "sort")
    /\ UNCHANGED <<vfsIsRegistered, vfsMounts, objects, channels, interp, vfsMu,
                   last>>

\* MountFileSystem line 73
MountSort(t) ==
    /\ thread[t].pc = "sort"
    /\ vfsPoints' = SortStrings(vfsPoints)
    /\ thread' = Goto(t, "unlock")
    /\ UNCHANGED <<vfsIsRegistered, vfsMounts, objects, channels, interp, vfsMu,
                   last>>

\* The thread of a hook once findVFSprefix returned idx: vfsPathInFilesystem
\* returns; vfsFile panics if idx is -1 and else calls the provider's Open.
found(t, idx) ==
    IF thread[t].op = "PathInFilesystem" \/ idx < 0
    THEN [thread EXCEPT ![t].pc = "unlock", ![t].idx = idx]
    ELSE [thread EXCEPT ![t].pc = "io_open", ![t].idx = idx,
                        ![t].fs = MapGet(vfsMounts, vfsPoints[idx + 1]),
                        ![t].abs = SubSeq(thread[t].arg,
                                          Len(vfsPoints[idx + 1]),
                                          Len(thread[t].arg))]

\* findVFSprefix, and vfsFile lines 202-204: the hook reads the table.
Find(t) ==
    /\ thread[t].pc = "find"
    /\ thread' = found(t, findVFSprefix(thread[t].arg))
    /\ UNCHANGED <<vfsIsRegistered, vfsMounts, vfsPoints, objects, channels,
                   interp, vfsMu, last>>

\* The file vfsFile returns to the hook of thread th.
threadFile(th) == openAt(<<>>, th.fs, th.abs).file

\* Where a hook goes on once vfsFile returned: a failed open returns (nil,
\* or the panic of vfsOpenFileChannel), vfsFileInfo calls file.Stat,
\* vfsOpenFileChannel creates the channel.
afterOpen(op, ok) ==
    IF ~ok THEN "unlock" ELSE IF op = "Open" THEN "create" ELSE "io_stat"

\* The provider's Open (lines 205-209), which was executing, returns; ok
\* tells whether it returned a file.
ProviderOpen(t, ok) ==
    /\ thread[t].pc = "io_open"
    /\ ok = ~threadFile(thread[t]).nil
    /\ thread' = Goto(t, afterOpen(thread[t].op, ok))
    /\ UNCHANGED <<vfsIsRegistered, vfsMounts, vfsPoints, objects, channels,
                   interp, vfsMu, last>>

\* vfsOpenFileChannel line 268: addObject(file), which picks the token h,
\* and XTcl_CreateChannel.
CreateChannel(t, h) ==
    /\ thread[t].pc = "create"
    /\ h \in FreeTokens(objects)
    /\ objects' = addObject(objects, Stream(threadFile(thread[t])), h)
    /\ channels' = channels \cup {h}
    /\ thread' = Goto(t, "unlock")
    /\ UNCHANGED <<vfsIsRegistered, vfsMounts, vfsPoints, interp, vfsMu, last>>

\* file.Stat (line 224), which was executing, returns.
FileStat(t) ==
    /\ thread[t].pc = "io_stat"
    /\ thread' = Goto(t, "unlock")
    /\ UNCHANGED <<vfsIsRegistered, vfsMounts, vfsPoints, objects, channels,
                   interp, vfsMu, last>>

\* Where a call returns to: a call made by a provider's Open returns into
\* that Open.
returned(th) ==
    IF th.outer = NoFrame THEN IdleThread
    ELSE [ThreadAt("io_open", th.outer.op, th.outer.arg, th.outer.fs,
                   th.outer.idx) EXCEPT !.abs = th.outer.abs]

\* The deferred vfsMu.Unlock() as the function returns or panics; a thread
\* that does not hold the lock leaves it as it is.
Unlock(t) ==
    /\ thread[t].pc = "unlock"
    /\ vfsMu' = IF vfsMu = t THEN 0 ELSE vfsMu
    /\ thread' = [thread EXCEPT ![t] = returned(thread[t])]
    /\ UNCHANGED <<vfsIsRegistered, vfsMounts, vfsPoints, objects, channels,
                   interp, last>>

\* The inputs of the thread specification.
ThreadPoints == { <<"/", "a">>, <<"/", "a", "/", "b">> }

ThreadProviders == {"A"}

ThreadPaths == { <<"/", "a", "/", "f">>, <<"/", "a", "/", "x">> }

ThreadHooks == {"PathInFilesystem", "Stat", "Access", "Open"}

NextThreads ==
    \/ \E t \in Threads, point \in ThreadPoints, fs \in ThreadProviders :
           BeginMount(t, point, fs)
    \/ \E t \in Threads, point \in ThreadPoints : BeginCall(t, "Unmount", point)
    \/ \E t \in Threads, op \in ThreadHooks, path \in ThreadPaths :
           BeginCall(t, op, path)
    \/ \E t \in Threads : Lock(t)
    \/ \E t \in Threads, rc \in RegisterResults : Register(t, rc)
    \/ \E t \in Threads : UnmountPoints(t)
    \/ \E t \in Threads : UnmountDelete(t)
    \/ \E t \in Threads : MountPut(t)
    \/ \E t \in Threads : MountAppend(t)
    \/ \E t \in Threads : MountSort(t)
    \/ \E t \in Threads : Find(t)
    \/ \E t \in Threads, ok \in BOOLEAN : ProviderOpen(t, ok)
    \/ \E t \in Threads, h \in Handles : CreateChannel(t, h)
    \/ \E t \in Threads : FileStat(t)
    \/ \E t \in Threads : Unlock(t)

SpecThreads == Init /\ [][NextThreads]_vars

\* The provider's Open, which a hook is executing, calls MountFileSystem:
\* the call normalizes the point and asks for the lock (lines 49-54).
ProviderMount(t, point, fs) ==
    /\ thread[t].pc = "io_open"
    /\ thread[t].outer = NoFrame
    /\ ~normalizeMountPoint(point).err
    /\ thread' = [thread EXCEPT
                      ![t] = [ThreadAt("lock", "Mount",
                                       normalizeMountPoint(point).s, fs, -1)
                                  EXCEPT !.outer = Frame(thread[t])]]
    /\ UNCHANGED <<vfsIsRegistered, vfsMounts, vfsPoints, objects, channels,
                   interp, vfsMu, last>>

\* The provider's Open calls UnmountFileSystem, whose first statement asks
\* for the lock (line 80).
ProviderUnmount(t, point) ==
    /\ thread[t].pc = "io_open"
    /\ thread[t].outer = NoFrame
    /\ thread' = [thread EXCEPT
                      ![t] = [ThreadAt("lock", "Unmount", point, Nil, -1)
                                  EXCEPT !.outer = Frame(thread[t])]]
    /\ UNCHANGED <<vfsIsRegistered, vfsMounts, vfsPoints, objects, channels,
                   interp, vfsMu, last>>

\* The statements of a call in progress, the lock aside: each is executed
\* once the thread is at it, and a provider's Open or Stat returns.
ThreadStep(t) ==
    \/ \E rc \in RegisterResults : Register(t, rc)
    \/ UnmountPoints(t)
    \/ UnmountDelete(t)
    \/ MountPut(t)
    \/ MountAppend(t)
    \/ MountSort(t)
    \/ Find(t)
    \/ \E ok \in BOOLEAN : ProviderOpen(t, ok)
    \/ \E h \in Handles : CreateChannel(t, h)
    \/ FileStat(t)
    \/ Unlock(t)

\* The threads with providers that call back into the package.
NextReentrant ==
    \/ NextThreads
    \/ \E t \in Threads, point \in ThreadPoints, fs \in ThreadProviders :
           ProviderMount(t, point, fs)
    \/ \E t \in Threads, point \in ThreadPoints : ProviderUnmount(t, point)

\* Every thread in a call goes on executing, and a thread that waits in
\* vfsMu.Lock() gets the lock if it is free again and again (sync.Mutex
\* hands the lock to a waiter that was starved).
SpecReentrant ==
    /\ Init
    /\ [][NextReentrant]_vars
    /\ \A t \in Threads : WF_vars(ThreadStep(t)) /\ SF_vars(Lock(t))

\* ------------------------------------------------------------- the claims

Range(list) == {list[k] : k \in 1 .. Len(list)}

\* How many entries of the list equal x.
Count(list, x) == Cardinality({k \in 1 .. Len(list) : list[k] = x})

Hooks == {"PathInFilesystem", "Stat", "Access"}

\* The points of the list that are a literal prefix of the path.
Covering(points, path) == {q \in Range(points) : HasPrefix(path, q)}

\* The longest of them.
Longest(points, path) ==
    CHOOSE q \in Covering(points, path) :
        \A o \in Covering(points, path) : Len(o) <= Len(q)

\* The path relative to the point, as the provider is asked for it.
RelPath(path, point) == SubSeq(path, Len(point), Len(path))

\* The provider holds the path: it opens under the name, or, when that
\* fails and the name has no trailing slash, under the name with a slash,
\* and what opened can be stat'ed.
CanOpenAndStat(fs, abs) ==
    IF \E e \in FsEntries(fs) : e.name = abs
    THEN \E e \in FsEntries(fs) : e.name = abs /\ e.statOk
    ELSE /\ ~HasSuffix(abs, <<"/">>)
         /\ \E e \in FsEntries(fs) : e.name = abs \o <<"/">> /\ e.statOk

\* The entry the provider serves for the path, when CanOpenAndStat.
ServedEntry(fs, abs) ==
    CHOOSE e \in FsEntries(fs) :
        IF \E d \in FsEntries(fs) : d.name = abs
        THEN e.name = abs ELSE e.name = abs \o <<"/">>

\* A hook call that resolved the path to a point with a provider.
Resolved == last.op \in Hooks /\ last.point # <<>> /\ last.fs # Nil

\* C1: after any sequence of mounts and unmounts, a hook resolves a path to
\* the longest listed point that is a prefix of it, and the
\* path-in-filesystem hook reports not-found only if no listed point is a
\* prefix of the path.
C1_LongestPrefix ==
    last.op = "PathInFilesystem" =>
        IF Covering(vfsPoints, last.arg) = {}
        THEN last.rc = -1
        ELSE last.rc = TCL_OK /\ last.point = Longest(vfsPoints, last.arg)

\* C2: with exactly two points mounted, one a prefix of the other, every
\* path under the nested (longer) point resolves to the nested point.
C2_NestedPoint ==
    (/\ Len(vfsPoints) = 2
     /\ vfsPoints[1] # vfsPoints[2]
     /\ HasPrefix(vfsPoints[2], vfsPoints[1]))
    => /\ \A path \in QueryPaths :
              HasPrefix(path, vfsPoints[2]) => findVFSprefix(path) = 1
       /\ (last.op \in Hooks /\ HasPrefix(last.arg, vfsPoints[2]))
              => last.point = vfsPoints[2]

C2_Witness ==
    /\ Len(vfsPoints) = 2
    /\ vfsPoints[1] # vfsPoints[2]
    /\ HasPrefix(vfsPoints[2], vfsPoints[1])
    /\ last.op = "Stat"
    /\ HasPrefix(last.arg, vfsPoints[2])
    /\ last.point = vfsPoints[2]
    /\ last.rc = 0 /\ ~last.panic

\* C3: a successful MountFileSystem of a provider B at a point directly
\* after a successful MountFileSystem at the same normalized point leaves
\* exactly one entry for the point in the list, bound to B.
C3_RemountReplaces ==
    [][(/\ last.op = "Mount" /\ last.err = ""
        /\ last'.op = "Mount" /\ last'.err = "" /\ last'.fs \in Providers
        /\ last'.point = last.point)
       => /\ Count(vfsPoints', last.point) = 1
          /\ MapGet(vfsMounts', last.point) = last'.fs]_vars

\* The points that are mounted: those with a provider, which are the ones
\* lockedUnmountFileSystem takes to be mounted (line 93).
MountedPoints == {q \in DOMAIN vfsMounts : vfsMounts[q] # Nil}

\* C4: if no mounted point is a prefix of the path, the path-in-filesystem
\* hook returns -1 and never TCL_OK: so for every path when nothing is
\* mounted, and after the only point that covered the path was unmounted.
C4_NotMine ==
    (/\ last.op = "PathInFilesystem"
     /\ \A q \in MountedPoints : ~HasPrefix(last.arg, q))
    => last.rc = -1 /\ ~last.panic

\* C5: a MountFileSystem call whose point is "" or "." returns the
\* invalid-path error and leaves the points list, the provider map and the
\* registration flag as they were.
C5_InvalidPoint ==
    [][last'.op = "Mount" =>
           \A s \in {<<>>, <<".">>}, fs \in ProviderValues, rc \in RegisterResults :
               MountFileSystem(s, fs, rc)
               => /\ last'.err = "invalid"
                  /\ UNCHANGED <<vfsPoints, vfsMounts, vfsIsRegistered>>]_vars

C5_Witness ==
    /\ last.op = "Mount"
    /\ last.err = "invalid"
    /\ vfsPoints # <<>>

\* Nothing is mounted at what s normalizes to: s is no valid point, or the
\* point is not listed, or no provider is registered for it.
NothingMountedAt(s) ==
    \/ normalizeMountPoint(s).err
    \/ normalizeMountPoint(s).s \notin Range(vfsPoints)
    \/ MapGet(vfsMounts, normalizeMountPoint(s).s) = Nil

\* C6: UnmountFileSystem of a point at which nothing is mounted returns an
\* error and leaves the points list and the provider map unchanged.
C6_UnmountNothing ==
    [][last'.op = "Unmount" =>
           \A s \in MountInputs :
               (NothingMountedAt(s) /\ UnmountFileSystem(s))
               => /\ last'.err # ""
                  /\ UNCHANGED <<vfsPoints, vfsMounts>>]_vars

C6_Witness ==
    /\ last.op = "Unmount"
    /\ last.err = "notmounted"
    /\ vfsPoints # <<>>

\* C7: a successful UnmountFileSystem of p removes exactly p: afterwards p
\* is not listed and no path resolves to it, the other points keep their
\* order, and the other providers are unchanged.
C7_UnmountExactly ==
    [][last'.op = "Unmount" =>
           \A s \in MountInputs :
               (UnmountFileSystem(s) /\ last'.err = "")
               => /\ last'.point \notin Range(vfsPoints')
                  /\ vfsPoints' = SelectSeq(vfsPoints, LAMBDA q : q # last'.point)
                  /\ vfsMounts' = MapDelete(vfsMounts, last'.point)]_vars

\* C8 as stated: for an existing path (the resolved provider opens and
\* stats it), file or directory, the access hook returns -1 whenever the
\* mode includes write or execute permission.
C8_DenyWriteExec ==
    (/\ last.op = "Access" /\ Resolved
     /\ CanOpenAndStat(last.fs, RelPath(last.arg, last.point))
     /\ BitAnd(last.mode, 3) # 0)
    => last.rc = -1 /\ ~last.panic

\* C8 amended: for a path that resolves to a point whose provider opens and
\* stats it, the access hook returns -1 whenever the mode includes write
\* permission and, for a file, whenever it includes execute permission;
\* for a directory a mode without write permission is granted, execute
\* (search) included.
C8_DenyWriteAndFileExec ==
    (/\ last.op = "Access" /\ Resolved
     /\ CanOpenAndStat(last.fs, RelPath(last.arg, last.point)))
    => /\ ~last.panic
       /\ BitAnd(last.mode, 2) # 0 => last.rc = -1
       /\ (/\ ~ServedEntry(last.fs, RelPath(last.arg, last.point)).isDir
           /\ BitAnd(last.mode, 1) # 0) => last.rc = -1
       /\ (/\ ServedEntry(last.fs, RelPath(last.arg, last.point)).isDir
           /\ BitAnd(last.mode, 2) = 0) => last.rc = 0

C8_Witness ==
    /\ last.op = "Access" /\ Resolved
    /\ CanOpenAndStat(last.fs, RelPath(last.arg, last.point))
    /\ ~ServedEntry(last.fs, RelPath(last.arg, last.point)).isDir
    /\ last.mode = 1
    /\ last.rc = -1

\* C9: with a mode that requests neither write nor execute, the access hook
\* returns 0 exactly when the provider of the resolved point opens the path
\* (as given, or with a trailing slash) and stats it, and -1 otherwise.
C9_ReadAccess ==
    (last.op = "Access" /\ Resolved /\ BitAnd(last.mode, 3) = 0)
    => /\ ~last.panic
       /\ last.rc \in {0, -1}
       /\ last.rc = 0 <=> CanOpenAndStat(last.fs, RelPath(last.arg, last.point))

C9_Witness ==
    /\ last.op = "Access" /\ Resolved
    /\ last.mode = 4
    /\ Len(last.opens) = 2
    /\ last.rc = 0

\* C10: when the path resolves to a point but its provider has no such
\* entry, or the entry cannot be stat'ed, the stat hook returns -1 and
\* leaves the caller's stat buffer unwritten.
C10_StatFailure ==
    (/\ last.op = "Stat" /\ Resolved
     /\ ~CanOpenAndStat(last.fs, RelPath(last.arg, last.point)))
    => /\ ~last.panic
       /\ last.rc = -1
       /\ last.buf = NoStatBuf

C10_Witness ==
    /\ last.op = "Stat" /\ Resolved
    /\ \E e \in FsEntries(last.fs) :
           e.name = RelPath(last.arg, last.point) /\ ~e.statOk
    /\ last.rc = -1
    /\ last.buf = NoStatBuf

\* The hooks that open a host file for a path.
OpeningHooks == {"Stat", "Access", "Open"}

\* C11: the stat, access and open hooks never panic: for every path and
\* every table state (empty table, path outside every mount point, path the
\* provider does not hold) the call returns.
C11_NeverPanics == last.op \in OpeningHooks => ~last.panic

\* The open modes that request write access: O_WRONLY, O_RDWR.
WriteOpenModes == {1, 2}

\* C12: the open hook called with a mode that requests write access on a
\* path under a mount point fails as permission-denied: it creates no
\* channel.
C12_WriteOpenDenied ==
    (/\ last.op = "Open"
     /\ last.mode \in WriteOpenModes
     /\ Covering(vfsPoints, last.arg) # {})
    => ~last.created /\ last.h \notin channels

\* The provider opens the name, or, when that fails and the name has no
\* trailing slash, the name with a slash.
CanOpen(fs, abs) ==
    \/ \E e \in FsEntries(fs) : e.name = abs
    \/ /\ ~HasSuffix(abs, <<"/">>)
       /\ \E e \in FsEntries(fs) : e.name = abs \o <<"/">>

\* An open hook call that resolved the path to a provider that fails to
\* open it, the retry with a trailing slash included.
FailedOpen ==
    /\ last.op = "Open"
    /\ last.point # <<>>
    /\ last.fs # Nil
    /\ ~CanOpen(last.fs, RelPath(last.arg, last.point))

\* C13: when the provider fails to open the path, the open hook stores no
\* handle and creates no native channel: the live handles and the channels
\* are the same after the call as before.
C13_FailedOpenStoresNothing ==
    [][FailedOpen' => /\ objects' = objects
                      /\ channels' = channels
                      /\ ~last'.created]_vars

\* A failed open, retried with the slash, while a handle is live.
C13_Witness ==
    /\ FailedOpen
    /\ Len(last.opens) = 2
    /\ DOMAIN objects # {}
    /\ channels = DOMAIN objects

\* C14: the close hook always returns 0; after it the handle no longer
\* loads from the registry; a close of a handle that is already released
\* also returns 0 and leaves the registry unchanged.
C14_CloseReleases ==
    [][last'.op = "Close"
          => /\ last'.rc = 0
             /\ ~last'.panic
             /\ ~getObject(objects', last'.h).found
             /\ (~last'.found => objects' = objects)]_vars

\* A second close: the handle was not live, another one is.
C14_Witness ==
    /\ last.op = "Close"
    /\ ~last.found
    /\ last.rc = 0
    /\ DOMAIN objects # {}

\* C15: when the close hook runs for a channel, the Close of its host
\* stream is called: the stream that backed the closed channel is closed.
C15_CloseClosesStream ==
    (last.op = "Close" /\ last.found) => last.stream.closed

\* An input call with a null buffer or zero bytes requested.
NoOpInput == last.op = "Input" /\ (last.bufPtr = 0 \/ last.toRead = 0)

\* C16: the input hook called with a null buffer or with zero bytes
\* requested returns 0 without calling Read: the stream position and the
\* registry are unchanged.
C16_NoOpInput ==
    [][NoOpInput' => /\ last'.rc = 0
                     /\ ~last'.panic
                     /\ last'.reads = 0
                     /\ objects' = objects]_vars

\* A null buffer with bytes requested, on a stream that has been read.
C16_Witness ==
    /\ NoOpInput
    /\ last.toRead > 0
    /\ last.found
    /\ last.stream.pos > 0
    /\ last.rc = 0

\* C17: when Read returns zero bytes with end of stream, the input hook
\* returns 0, never a negative result.
C17_EofIsZero ==
    (last.op = "Input" /\ last.reads = 1 /\ last.read = ReadResult(0, "EOF"))
    => last.rc = 0 /\ ~last.panic

C17_Witness ==
    /\ last.op = "Input"
    /\ last.reads = 1
    /\ last.read = ReadResult(0, "EOF")
    /\ last.stream.pos = last.stream.size
    /\ last.stream.size > 0
    /\ last.rc = 0

\* C18: when Read fails with an error other than end of stream, the input
\* hook returns a negative result and stores an error code through its
\* error code parameter.
C18_ReadErrorCode ==
    (/\ last.op = "Input"
     /\ last.reads = 1
     /\ last.read.err \notin {"", "EOF"})
    => last.rc < 0 /\ last.errorCode # 0

\* C19: on one open channel every input call returns at most the bytes
\* requested, the bytes returned so far are the content of the stream in
\* order, and input returns 0 only once the whole content was delivered.
C19_RoundTrip ==
    /\ \A h \in DOMAIN objects :
           /\ objects[h].pos <= objects[h].size
           /\ objects[h].got = SubSeq(Content(objects[h].size), 1, objects[h].pos)
    /\ (last.op = "Input" /\ last.reads = 1)
           => /\ last.rc <= last.toRead
              /\ last.rc = 0 => last.stream.got = Content(last.stream.size)

\* C20: the seek hook never returns an offset: every call panics and leaves
\* the stream position unchanged.
C20_SeekPanics ==
    [][last'.op = "Seek" => last'.panic /\ objects' = objects]_vars

\* A seek on a live channel whose stream has been read.
C20_Witness ==
    /\ last.op = "Seek"
    /\ last.panic
    /\ last.found
    /\ last.stream.pos > 0
    /\ objects[last.h].pos = last.stream.pos

\* C21: the watch hook called with a non-zero event mask panics instead of
\* returning; called with mask 0 it returns and leaves the channels and the
\* registry as they were.
C21_WatchFailsLoudly ==
    [][last'.op = "Watch"
          => /\ last'.panic <=> last'.mode # 0
             /\ objects' = objects
             /\ channels' = channels]_vars

\* A watch for read-readiness on an open channel.
C21_Witness ==
    /\ last.op = "Watch"
    /\ last.mode = 2
    /\ last.panic
    /\ last.found
    /\ last.h \in channels

\* C22: in the registry, release(h) followed by load(h) reports not-found,
\* and releasing a handle that is already released is a no-op: no error,
\* and every other handle maps to what it mapped to.
C22_ReleaseThenLoad ==
    [][last'.op = "Close"
          => /\ \A h \in Handles :
                    /\ ~getObject(removeObject(objects, h), h).found
                    /\ removeObject(removeObject(objects, h), h)
                           = removeObject(objects, h)
             /\ ~getObject(objects', last'.h).found
             /\ \A k \in DOMAIN objects \ {last'.h} :
                    getObject(objects', k) = getObject(objects, k)
             /\ ~last'.found => ~last'.panic /\ objects' = objects]_vars

\* A release of a released handle while another handle holds a stream that
\* has been read.
C22_Witness ==
    /\ last.op = "Close"
    /\ ~last.found
    /\ \E k \in DOMAIN objects : k # last.h /\ objects[k].pos > 0

\* C23: each live handle maps to exactly one host object and store never
\* returns a live handle: the handle of a channel the open hook creates was
\* not live and belonged to no channel, it maps to the stream just opened,
\* and every handle that was live maps to what it mapped to.
C23_FreshHandle ==
    [][(last'.op = "Open" /\ last'.created)
          => /\ last'.h \notin DOMAIN objects
             /\ last'.h \notin channels
             /\ getObject(objects', last'.h) = [found |-> TRUE, o |-> last'.stream]
             /\ \A k \in DOMAIN objects :
                    getObject(objects', k) = getObject(objects, k)
             /\ channels' = DOMAIN objects']_vars

\* Two channels open at the same time, the older one read from.
C23_Witness ==
    /\ last.op = "Open"
    /\ last.created
    /\ Cardinality(channels) = 2
    /\ \E k \in channels : k # last.h /\ objects[k].pos > 0
    /\ objects[last.h].pos = 0

\* The positions in the list of deletion callback calls that are calls for
\* registration reg.
DeleteCalls(in, reg) == {k \in 1 .. Len(in.deleted) : in.deleted[k].reg = reg}

\* C24: the deletion callback of a registration is called exactly once,
\* with the client data given at registration, whether the command is
\* unregistered explicitly or the interpreter is closed while it is live:
\* not at all while the registration is live, once when it is gone, and a
\* closed interpreter has no live registration.
C24_DeletedOnce ==
    /\ interp.closed => LiveRegs(interp) = {}
    /\ \A reg \in 1 .. Len(interp.regs) :
           interp.regs[reg].hasDelete =>
               IF reg \in LiveRegs(interp)
               THEN DeleteCalls(interp, reg) = {}
               ELSE /\ Cardinality(DeleteCalls(interp, reg)) = 1
                    /\ \A k \in DeleteCalls(interp, reg) :
                           interp.deleted[k].clientData
                               = interp.regs[reg].clientData

\* The interpreter was closed with a live registration after another one
\* was unregistered or replaced: callbacks were called before the Close and
\* by it.
C24_Witness ==
    /\ last.op = "Close"
    /\ interp.closed
    /\ last.fired # <<>>
    /\ Len(last.fired) < Len(interp.deleted)

\* C25: registering a command under a name that has a live registration
\* calls the deletion callback of the previous registration, which is then
\* no longer live, so that no later unregistration or Close calls it again.
C25_ReplaceDeletesOld ==
    [][(/\ last'.op = "NewCommand"
        /\ last'.err = ""
        /\ last'.name \in DOMAIN interp.commands)
          => /\ interp.commands[last'.name] \notin LiveRegs(interp')
             /\ interp'.commands[last'.name] = last'.reg
             /\ interp.regs[interp.commands[last'.name]].hasDelete
                    => last'.fired
                         = <<[reg |-> interp.commands[last'.name],
                              clientData |->
                                  interp.regs[interp.commands[last'.name]].clientData]>>
             /\ \A reg \in 1 .. Len(interp'.regs) :
                    Cardinality(DeleteCalls(interp', reg)) <= 1]_vars

\* A registration replaced one with a callback, and the interpreter was
\* closed later.
C25_Witness ==
    /\ interp.closed
    /\ \E a, b \in 1 .. Len(interp.regs) :
           /\ a < b
           /\ interp.regs[a].name = interp.regs[b].name
           /\ interp.regs[a].hasDelete
           /\ interp.regs[b].hasDelete
           /\ interp.deleted[1].reg = a
           /\ interp.deleted[Len(interp.deleted)].reg = b

\* C26: the evaluation of a script that invokes a registered command calls
\* the host callable once, with the client data given at registration and
\* the words of the script in order, the command name first, and returns
\* the string the callable set as the result.
C26_EvalCallsOnce ==
    (/\ last.op = "Eval"
     /\ ~interp.closed
     /\ last.script[1] \in DOMAIN interp.commands)
    => /\ last.err = ""
       /\ Len(last.calls) = 1
       /\ last.calls[1].args = last.script
       /\ last.calls[1].clientData
              = interp.regs[interp.commands[last.script[1]]].clientData
       /\ last.result = Echo(interp.regs[interp.commands[last.script[1]]].clientData,
                             last.script)

\* The evaluation of the tests: ::go::echo 123 foo bar with client data 42
\* returns 123 foo bar 42.
C26_Witness ==
    /\ last.op = "Eval"
    /\ last.script = <<"::go::echo", "123", "foo", "bar">>
    /\ Len(last.calls) = 1
    /\ last.calls[1].clientData = 42
    /\ last.result = <<"123", " ", "foo", " ", "bar", " ", "42">>

\* The statements at which a provider's Open or a stream's Stat is
\* executing.
ProviderPcs == {"io_open", "io_stat"}

\* C27: no hook and no mount call holds vfsMu while a provider's Open or a
\* stream's Stat is executing.
C27_NoLockAcrossProvider ==
    \A t \in Threads : thread[t].pc \in ProviderPcs => vfsMu # t

\* The statements that read or write the points list or the provider map.
TablePcs == {"unmount", "delete", "put", "append", "sort", "find"}

\* The list is in strictly increasing order.
StrictlySorted(list) ==
    \A k \in 1 .. Len(list) - 1 : StrLess(list[k], list[k + 1])

\* The table is not half-updated: the list is sorted and the listed points
\* are the points that have a provider.
TableConsistent ==
    /\ StrictlySorted(vfsPoints)
    /\ Range(vfsPoints) = DOMAIN vfsMounts

\* C28: every read or write of the mount table happens while the thread
\* holds vfsMu, so under any interleaving a hook that reads the table finds
\* it sorted and with a provider for every listed point.
C28_TableUnderLock ==
    \A t \in Threads :
        /\ thread[t].pc \in TablePcs => vfsMu = t
        /\ (thread[t].pc = "find" /\ thread[t].op \in ThreadHooks)
               => TableConsistent

\* A mount has left the list unsorted while the hook of another thread
\* waits for the lock.
C28_Witness ==
    \E t, u \in Threads :
        /\ thread[t].pc = "sort"
        /\ ~StrictlySorted(vfsPoints)
        /\ vfsMu = t
        /\ thread[u].pc = "lock"
        /\ thread[u].op \in ThreadHooks

\* C29: after any sequence of mounts and unmounts the points list is in
\* strictly increasing order: sorted, and no point appears in it twice.
C29_StrictlyIncreasing == StrictlySorted(vfsPoints)

\* C30: every point stored in the mount table is an absolute path: it
\* begins with a slash.
C30_AbsolutePoints ==
    \A p \in Range(vfsPoints) \cup DOMAIN vfsMounts : Len(p) > 0 /\ p[1] = "/"

\* The point ends with exactly one slash; the root is the slash alone.
OneTrailingSlash(p) ==
    /\ Len(p) >= 1
    /\ p[Len(p)] = "/"
    /\ Len(p) >= 2 => p[Len(p) - 1] # "/"

\* Spellings that clean to /a.
SpellingsOfA ==
    { <<"/", "a">>, <<"/", "a", "/">>, <<"/", "a", "/", "/">>,
      <<"/", "a", "/", ".", "/">> }

\* C31: every stored point ends with exactly one slash, normalization is
\* idempotent, and the spellings /a, /a/, /a//, /a/./ designate the same
\* point for MountFileSystem and for UnmountFileSystem.
C31_Normalized ==
    /\ \A p \in Range(vfsPoints) \cup DOMAIN vfsMounts : OneTrailingSlash(p)
    /\ \A s \in MountInputs :
           ~normalizeMountPoint(s).err
               => normalizeMountPoint(normalizeMountPoint(s).s)
                      = normalizeMountPoint(s)
    /\ \A s \in SpellingsOfA :
           /\ normalizeMountPoint(s) = [err |-> FALSE, s |-> <<"/", "a", "/">>]
           /\ lockedUnmountFileSystem(vfsPoints, vfsMounts, s)
                  = lockedUnmountFileSystem(vfsPoints, vfsMounts, <<"/", "a">>)
    /\ last.op \in {"Mount", "Unmount"} /\ last.err # "invalid"
           => OneTrailingSlash(last.point)

\* The root and /a/ are mounted, /a/ with a provider, so that any spelling
\* of /a unmounts it.
C31_Witness ==
    /\ vfsPoints = << <<"/">>, <<"/", "a", "/">> >>
    /\ MapGet(vfsMounts, <<"/", "a", "/">>) # Nil
    /\ last.op = "Mount"
    /\ last.point = <<"/", "a", "/">>

\* The provider opens the name.
Opens(fs, name) == \E e \in FsEntries(fs) : e.name = name

\* The Open calls a hook call may make for the path relative to the point:
\* the relative path, and once more with a slash only if that failed and
\* the relative path does not end in a slash.
OpenCalls(fs, abs) ==
    IF ~Opens(fs, abs) /\ ~HasSuffix(abs, <<"/">>)
    THEN <<abs, abs \o <<"/">> >>
    ELSE <<abs>>

\* A stat, access or open hook call that resolved the path to a provider.
ResolvedOpeningHook ==
    /\ last.op \in OpeningHooks
    /\ last.point # <<>>
    /\ last.fs # Nil

\* The hook call succeeded: stat and access returned 0, open created a
\* channel.
HookSucceeded ==
    IF last.op = "Open" THEN last.created /\ ~last.panic
    ELSE ~last.panic /\ last.rc = 0

\* C32 as stated: a hook calls the provider's Open at most twice, the
\* second time only after a failure and with a slash appended, and the hook
\* succeeds iff one of these calls succeeds.
C32_OpenTwiceIff ==
    ResolvedOpeningHook
    => /\ last.opens = OpenCalls(last.fs, RelPath(last.arg, last.point))
       /\ HookSucceeded
              <=> \E k \in 1 .. Len(last.opens) : Opens(last.fs, last.opens[k])

\* C32, amended: every hook, open included, makes the same Open calls, at
\* most two, and succeeds only if one of them succeeds; the open hook
\* succeeds whenever one does, and stat and access return -1 when none does
\* (they can fail also when the file's Stat fails or the mode is denied).
C32_OpenTwice ==
    ResolvedOpeningHook
    => /\ last.opens = OpenCalls(last.fs, RelPath(last.arg, last.point))
       /\ Len(last.opens) <= 2
       /\ HookSucceeded
              => \E k \in 1 .. Len(last.opens) : Opens(last.fs, last.opens[k])
       /\ (last.op = "Open"
              /\ \E k \in 1 .. Len(last.opens) : Opens(last.fs, last.opens[k]))
              => HookSucceeded
       /\ (last.op # "Open"
              /\ \A k \in 1 .. Len(last.opens) : ~Opens(last.fs, last.opens[k]))
              => ~last.panic /\ last.rc = -1

\* An open hook that created its channel on the second Open, the one with
\* the slash.
C32_Witness ==
    /\ ResolvedOpeningHook
    /\ last.op = "Open"
    /\ last.created
    /\ Len(last.opens) = 2
    /\ ~Opens(last.fs, last.opens[1])
    /\ Opens(last.fs, last.opens[2])

\* C33: the input hook called with a handle that was released or never
\* issued reports an error status instead of panicking.
C33_InputOnDeadHandle ==
    (/\ last.op = "Input"
     /\ ~last.found
     /\ last.bufPtr # 0
     /\ last.toRead > 0)
    => ~last.panic /\ last.rc < 0

\* The bits of a stat mode word, by position: S_IFDIR (040000), the write
\* permissions (0222) and the execute or search permissions (0111).
StatDirBits == {14}

StatWriteBits == {1, 4, 7}

StatExecBits == {0, 3, 6}

\* A stat hook call that succeeded.
StatSucceeded ==
    /\ Resolved
    /\ last.op = "Stat"
    /\ ~last.panic
    /\ last.rc = 0

\* C34: on success the mode word the stat hook stores has the directory
\* bit set iff the entry is a directory, no write bit, and no execute bit
\* for a file, whatever mode the provider's file info reports.
C34_ReadOnlyMode ==
    StatSucceeded
    => /\ last.buf.set
       /\ StatDirBits \subseteq last.buf.mode
              <=> ServedEntry(last.fs, RelPath(last.arg, last.point)).isDir
       /\ last.buf.mode \cap StatWriteBits = {}
       /\ ~ServedEntry(last.fs, RelPath(last.arg, last.point)).isDir
              => last.buf.mode \cap StatExecBits = {}

\* C35: the filesystem is registered on the first MountFileSystem call with
\* a valid point; once registered it stays registered and no later mount
\* registers again, also after every point was unmounted; a failed
\* registration makes the mount return an error and leaves the mount table
\* and the flag as they were, so that the next mount registers again.
C35_RegisterOnce ==
    [][/\ vfsIsRegistered => vfsIsRegistered'
       /\ last'.op = "Unmount" => vfsIsRegistered' = vfsIsRegistered
       /\ last'.op = "Mount" =>
              /\ last'.err \in {"invalid", "register", ""}
              /\ last'.err = "invalid" => vfsIsRegistered' = vfsIsRegistered
              /\ last'.err = "register" =>
                     /\ ~vfsIsRegistered
                     /\ ~vfsIsRegistered'
                     /\ vfsPoints' = vfsPoints
                     /\ vfsMounts' = vfsMounts
              /\ last'.err = "" => vfsIsRegistered'
              /\ vfsIsRegistered => last'.err # "register"]_vars

C35_Witness ==
    /\ last.op = "Mount"
    /\ last.err = "register"
    /\ last.point = <<"/", "a", "/">>
    /\ ~vfsIsRegistered
    /\ vfsPoints = << >>

\* C36: after any sequence of mounts and unmounts with any provider value,
\* nil included, the points of the sorted list are the keys of the provider
\* map, every listed point has a provider that can be called, and
\* UnmountFileSystem succeeds for exactly the listed points.
C36_ListEqualsMap ==
    /\ Range(vfsPoints) = DOMAIN vfsMounts
    /\ \A p \in Range(vfsPoints) : MapGet(vfsMounts, p) # Nil
    /\ \A s \in MountInputs :
           ~normalizeMountPoint(s).err
           => (lockedUnmountFileSystem(vfsPoints, vfsMounts, s).err = ""
                   <=> normalizeMountPoint(s).s \in Range(vfsPoints))

\* The table as it was before the unmount that last records: the calls hold
\* vfsMu from their first statement to their return (lines 80-82, 181-183),
\* so the calls of several threads happen one after another.
BeforeUnmount == SortStrings(Append(vfsPoints, last.point))

\* vfsPathInFilesystem answered yes for the path before the unmount, by the
\* point that was then unmounted.
SaidYes(path) ==
    /\ prefixAt(BeforeUnmount, path, SearchGeq(BeforeUnmount, path)) >= 0
    /\ BeforeUnmount[prefixAt(BeforeUnmount, path,
                              SearchGeq(BeforeUnmount, path)) + 1] = last.point

\* C37: when a point is unmounted between a path-in-filesystem call that
\* answered yes for a path and the stat, access or open hook for the same
\* path, the hook reports failure to its caller: it does not panic on an
\* out-of-range index into the points list or on a missing provider.
C37_UnmountBetween ==
    [][(/\ last'.op \in OpeningHooks
        /\ last.op = "Unmount"
        /\ last.err = ""
        /\ SaidYes(last'.arg))
       => /\ ~last'.panic
          /\ last'.op \in {"Stat", "Access"} => last'.rc = -1
          /\ last'.op = "Open" => ~last'.created]_vars

\* C38: vfsMu is released on every exit path of a call, a panicking one
\* included: a thread that is in no call does not hold it; and every thread
\* that waits for the lock eventually acquires it, also when a provider's
\* Open calls MountFileSystem or UnmountFileSystem.
C38_LockAcquired ==
    /\ [](\A t \in Threads : thread[t].pc = "idle" => vfsMu # t)
    /\ \A t \in Threads : (thread[t].pc = "lock") ~> (thread[t].pc # "lock")

\* C39: every host stream the driver obtained from a provider and that is
\* still open is the backing stream of exactly one live channel: a stream
\* opened to answer stat or access-check is closed when the hook returns,
\* and a stream in the registry belongs to one live channel.
C39_NoLeakedStream ==
    /\ (last.op \in {"Stat", "Access"} /\ ~last.stream.nil) => last.stream.closed
    /\ \A h \in DOMAIN objects : ~objects[h].closed => h \in channels

\* C40: unmounting or remounting a point does not affect the channels
\* opened under it: a mount or unmount leaves the registry and the channels
\* as they were, a handle leaves the registry only by its own close hook,
\* and an input call delivers the next bytes of the stream the channel was
\* opened on, whatever the mount table holds by then.
C40_ChannelsSurvive ==
    [][/\ last'.op \in {"Mount", "Unmount"}
              => objects' = objects /\ channels' = channels
       /\ \A h \in DOMAIN objects :
              h \notin DOMAIN objects' => last'.op = "Close" /\ last'.h = h
       /\ (last'.op = "Input" /\ last'.reads = 1 /\ last'.rc > 0)
              => /\ last'.h \in DOMAIN objects
                 /\ last'.stream.fs = objects[last'.h].fs
                 /\ last'.stream.name = objects[last'.h].name
                 /\ last'.stream.got
                        = objects[last'.h].got
                              \o SubSeq(Content(objects[last'.h].size),
                                        objects[last'.h].pos + 1,
                                        objects[last'.h].pos + last'.rc)]_vars

\* Input delivered bytes on a channel whose point is no longer mounted.
C40_Witness ==
    /\ vfsPoints = << >>
    /\ last.op = "Input"
    /\ last.rc > 0
    /\ last.h \in channels
    /\ last.h \in DOMAIN objects
    /\ objects[last.h].got # << >>

====
